---- MODULE Spec2Model ----
(***************************************************************************)
(* Model of the TicTacTussle store (store/src/lib.rs): the GameState, its  *)
(* validator `validate`, its reducer `consume` and the player lookup       *)
(* `get_player_tile`, driven by a caller that validates an event and then  *)
(* consumes it when it was accepted.                                       *)
(*                                                                         *)
(* A Rust Option is modelled as a set with at most one element: None is {} *)
(* and Some(x) is {x}.  A call that panics (an unwrap of None, an index    *)
(* out of bounds) is modelled by the flag `panic` of its outcome; the      *)
(* state it had written before the panic is kept and the run stops there.  *)
(*                                                                         *)
(* The card set (store/src/cardset.rs) is modelled next to it: the CardSet *)
(* that from_file builds, and get_card_from_tier drawing a card from it.   *)
(***************************************************************************)
EXTENDS Integers, Sequences, FiniteSets, TLC

(* ---------------------------- bounds ----------------------------------- *)
\* a run consumes at most MaxHistory events
MaxHistory == 4
\* a match is played on while it has consumed fewer than MaxPlay events, those
\* of its opening included
MaxPlay == 7
\* the server handles at most MaxHandled connection events and client messages
MaxHandled == 6
\* the cards of a card specification file are of tier 0..MaxTier
MaxTier == 2

(* ---------------------------- inputs ----------------------------------- *)
\* the player ids handed to the store: 0, which is also the default
\* active_player_id, and two more, so that a third player can turn up
PlayerIds == {0, 1, 2}
\* the names players join with
Names == {"Alice", "Bob"}

(* ---------------------------- data model ------------------------------- *)
Tile == {"Empty", "Tic", "Tac"}
Stage == {"PreGame", "InGame", "Ended"}
\* the board is [Tile; 9], indexed 0..8
BoardLen == 9
BoardIndex == 0..(BoardLen - 1)
\* the index `at` of a PlaceTile: every cell, and the first index past the board
Ats == 0..BoardLen

Player(name, piece) == [name |-> name, piece |-> piece]

\* EndGameReason
PlayerLeft(player_id) == [type |-> "PlayerLeft", player_id |-> player_id]
PlayerWon(winner) == [type |-> "PlayerWon", winner |-> winner]
EndGameReason == {PlayerLeft(p) : p \in PlayerIds} \cup {PlayerWon(p) : p \in PlayerIds}

\* GameEvent
BeginGame(goes_first) == [type |-> "BeginGame", goes_first |-> goes_first]
EndGame(reason) == [type |-> "EndGame", reason |-> reason]
PlayerJoined(player_id, name) == [type |-> "PlayerJoined", player_id |-> player_id, name |-> name]
PlayerDisconnected(player_id) == [type |-> "PlayerDisconnected", player_id |-> player_id]
PlaceTile(player_id, at) == [type |-> "PlaceTile", player_id |-> player_id, at |-> at]

PlaceTileEvents == {PlaceTile(p, at) : p \in PlayerIds, at \in Ats}
GameEvent ==
    {BeginGame(p) : p \in PlayerIds}
    \cup {EndGame(r) : r \in EndGameReason}
    \cup {PlayerJoined(p, n) : p \in PlayerIds, n \in Names}
    \cup {PlayerDisconnected(p) : p \in PlayerIds}
    \cup PlaceTileEvents

\* GameState::default()
default ==
    [stage |-> "PreGame",
     board |-> [i \in BoardIndex |-> "Empty"],
     active_player_id |-> 0,
     players |-> [p \in {} |-> Player("Alice", "Empty")],
     history |-> <<>>]

(* ---------------------------- outcomes of a call ----------------------- *)
\* a call of validate that returned b
Returned(b) == [panic |-> FALSE, ret |-> b]
\* a call that panicked and returned nothing
Panicked == [panic |-> TRUE, ret |-> FALSE]

\* HashMap::contains_key
contains_key(players, id) == id \in DOMAIN players

(* ---------------------------- validate --------------------------------- *)
\* mutant: the stage is not looked at
validate_BeginGame_NoStage(s, e) ==
    IF contains_key(s.players, e.goes_first) THEN Returned(FALSE) ELSE Returned(TRUE)

validate_BeginGame(s, e) ==
    LET player_is_unknown == contains_key(s.players, e.goes_first)
    IN  IF s.stage # "PreGame" \/ player_is_unknown
        THEN Returned(FALSE)
        ELSE Returned(TRUE)

\* mutant: the stage is checked for every reason, not only for PlayerWon
validate_EndGame_AnyReason(s, e) ==
    IF s.stage # "InGame" THEN Returned(FALSE) ELSE Returned(TRUE)

validate_EndGame(s, e) ==
    IF e.reason.type = "PlayerWon"
    THEN IF s.stage # "InGame" THEN Returned(FALSE) ELSE Returned(TRUE)
    ELSE Returned(TRUE)

\* mutant: a duplicate join is only looked for before the game has begun
validate_PlayerJoined_PreGame(s, e) ==
    IF s.stage = "PreGame" /\ contains_key(s.players, e.player_id)
    THEN Returned(FALSE)
    ELSE Returned(TRUE)

\* mutant: the duplicate-join check is missing
validate_PlayerJoined_NoCheck(s, e) == Returned(TRUE)

validate_PlayerJoined(s, e) ==
    IF contains_key(s.players, e.player_id)
    THEN Returned(FALSE)
    ELSE Returned(TRUE)

validate_PlayerDisconnected(s, e) ==
    IF ~contains_key(s.players, e.player_id)
    THEN Returned(FALSE)
    ELSE Returned(TRUE)

\* mutant: the occupancy check `board[at] != Empty` is missing
validate_PlaceTile_NoOccupancy(s, e) ==
    IF ~contains_key(s.players, e.player_id) THEN Returned(FALSE)
    ELSE IF s.active_player_id # e.player_id THEN Returned(FALSE)
    ELSE IF e.at > 8 THEN Returned(FALSE)
    ELSE Returned(TRUE)

\* mutant: the range check `at > 8` is missing, the board is indexed at once
validate_PlaceTile_NoRange(s, e) ==
    IF ~contains_key(s.players, e.player_id) THEN Returned(FALSE)
    ELSE IF s.active_player_id # e.player_id THEN Returned(FALSE)
    ELSE IF e.at \notin DOMAIN s.board THEN Panicked
    ELSE IF s.board[e.at] # "Empty" THEN Returned(FALSE)
    ELSE Returned(TRUE)

validate_PlaceTile(s, e) ==
    IF ~contains_key(s.players, e.player_id) THEN Returned(FALSE)
    ELSE IF s.active_player_id # e.player_id THEN Returned(FALSE)
    ELSE IF e.at > 8 THEN Returned(FALSE)
    ELSE IF e.at \notin DOMAIN s.board THEN Panicked
    ELSE IF s.board[e.at] # "Empty" THEN Returned(FALSE)
    ELSE Returned(TRUE)

validate(s, e) ==
    CASE e.type = "BeginGame" -> validate_BeginGame(s, e)
      [] e.type = "EndGame" -> validate_EndGame(s, e)
      [] e.type = "PlayerJoined" -> validate_PlayerJoined(s, e)
      [] e.type = "PlayerDisconnected" -> validate_PlayerDisconnected(s, e)
      [] e.type = "PlaceTile" -> validate_PlaceTile(s, e)

(* ---------------------------- consume ---------------------------------- *)
\* an outcome of consume: the state it leaves and whether it panicked
Done(s) == [state |-> s, panic |-> FALSE]
Abort(s) == [state |-> s, panic |-> TRUE]

\* self.history.push(valid_event.clone())
push_history(s, e) == [s EXCEPT !.history = Append(@, e)]

\* mutant: every player is handed the same piece
get_player_tile_Fixed(s, player_id) ==
    IF contains_key(s.players, player_id) THEN {"Tic"} ELSE {}

get_player_tile(s, player_id) ==
    IF contains_key(s.players, player_id)
    THEN {s.players[player_id].piece}
    ELSE {}

\* self.players.keys().find(|id| *id != player_id): the map's iteration
\* order is not fixed, so any other key may be the one found
keys_find_other(s, player_id) ==
    LET others == {id \in DOMAIN s.players : id # player_id}
    IN  IF others = {} THEN {{}} ELSE {{id} : id \in others}

\* the results the lookup of consume can produce for an event
find_results(s, e) ==
    IF e.type = "PlaceTile" THEN keys_find_other(s, e.player_id) ELSE {{}}

\* mutant: the game begins but the turn is not given to goes_first
consume_BeginGame_StageOnly(s, e) == [s EXCEPT !.stage = "InGame"]

consume_BeginGame(s, e) ==
    [s EXCEPT !.active_player_id = e.goes_first, !.stage = "InGame"]

consume_EndGame(s, e) == [s EXCEPT !.stage = "Ended"]

\* mutant: the pieces are handed out the other way round
consume_PlayerJoined_Swapped(s, e) ==
    LET piece == IF Cardinality(DOMAIN s.players) > 0 THEN "Tic" ELSE "Tac"
    IN  [s EXCEPT !.players =
            [p \in DOMAIN s.players \cup {e.player_id} |->
                IF p = e.player_id THEN Player(e.name, piece) ELSE s.players[p]]]

\* HashMap::insert, the piece computed from the length before the insertion
consume_PlayerJoined(s, e) ==
    LET piece == IF Cardinality(DOMAIN s.players) > 0 THEN "Tac" ELSE "Tic"
    IN  [s EXCEPT !.players =
            [p \in DOMAIN s.players \cup {e.player_id} |->
                IF p = e.player_id THEN Player(e.name, piece) ELSE s.players[p]]]

\* mutant: a disconnect empties the players
consume_PlayerDisconnected_Clear(s, e) ==
    [s EXCEPT !.players = [p \in {} |-> s.players[p]]]

consume_PlayerDisconnected(s, e) ==
    [s EXCEPT !.players = [p \in DOMAIN s.players \ {e.player_id} |-> s.players[p]]]

\* mutant: the turn is not handed over
consume_PlaceTile_KeepTurn(s, e, found) ==
    LET tile == get_player_tile(s, e.player_id)
    IN  IF tile = {} THEN Abort(s)
        ELSE IF e.at \notin DOMAIN s.board THEN Abort(s)
        ELSE LET piece == CHOOSE t \in tile : TRUE
                 s1 == [s EXCEPT !.board[e.at] = piece]
             IN  IF found = {} THEN Abort(s1) ELSE Done(s1)

consume_PlaceTile(s, e, found) ==
    LET tile == get_player_tile(s, e.player_id)
    IN  IF tile = {} THEN Abort(s)
        ELSE IF e.at \notin DOMAIN s.board THEN Abort(s)
        ELSE LET piece == CHOOSE t \in tile : TRUE
                 s1 == [s EXCEPT !.board[e.at] = piece]
             IN  IF found = {} THEN Abort(s1)
                 ELSE Done([s1 EXCEPT !.active_player_id = CHOOSE id \in found : TRUE])

\* consume: the match on the event, then the push onto history
consume(s, e, found) ==
    LET r == CASE e.type = "BeginGame" -> Done(consume_BeginGame(s, e))
               [] e.type = "EndGame" -> Done(consume_EndGame(s, e))
               [] e.type = "PlayerJoined" -> Done(consume_PlayerJoined(s, e))
               [] e.type = "PlayerDisconnected" -> Done(consume_PlayerDisconnected(s, e))
               [] e.type = "PlaceTile" -> consume_PlaceTile(s, e, found)
    IN  IF r.panic THEN r ELSE Done(push_history(r.state, e))

(* ---------------------------- determine_winner ------------------------- *)
\* mutant: the loop takes row2 before row1
WinLines_Row2First ==
    << <<3, 4, 5>>, <<0, 1, 2>>, <<6, 7, 8>>,
       <<0, 3, 6>>, <<1, 4, 7>>, <<2, 5, 8>>,
       <<0, 4, 8>>, <<2, 4, 6>> >>

\* the combinations of 3 cells that win the game, in the order of the loop:
\* row1, row2, row3, col1, col2, col3, diag1, diag2
WinLines ==
    << <<0, 1, 2>>, <<3, 4, 5>>, <<6, 7, 8>>,
       <<0, 3, 6>>, <<1, 4, 7>>, <<2, 5, 8>>,
       <<0, 4, 8>>, <<2, 4, 6>> >>

\* a comparison of the first two tiles only
all_are_the_same_FirstTwo(s, arr) ==
    s.board[arr[1]] = s.board[arr[2]]

\* tiles.get(0).map(|first| tiles.iter().all(|x| x == first)).unwrap_or(true)
all_are_the_same(s, arr) ==
    LET tiles == <<s.board[arr[1]], s.board[arr[2]], s.board[arr[3]]>>
    IN  \A i \in 1..3 : tiles[i] = tiles[1]

\* self.players.iter().find(|(_, player)| player.piece == self.board[arr[0]]):
\* the players the find can stop at, the map's iteration order not being fixed
find_piece_owner(s, arr) ==
    {id \in DOMAIN s.players : s.players[id].piece = s.board[arr[1]]}

\* the loop over the lines from line k on: the results it can return
RECURSIVE winner_from(_, _)
winner_from(s, k) ==
    IF k > Len(WinLines) THEN {{}}
    ELSE LET arr == WinLines[k]
         IN  IF all_are_the_same(s, arr) /\ find_piece_owner(s, arr) # {}
             THEN {{id} : id \in find_piece_owner(s, arr)}
             ELSE winner_from(s, k + 1)

\* determine_winner(&self) -> Option<PlayerId>: the set of its possible results
determine_winner(s) == winner_from(s, 1)

(* ---------------------------- the server's state ----------------------- *)
\* the ids of the clients that connect, and the lobby ids they ask to join
ClientIds == {0, 1}
LobbyIds == {0, 1}

\* struct Lobby and its Default
Lobby(players, game_state) == [players |-> players, game_state |-> game_state]
Lobby_default == Lobby(<<>>, default)

\* struct ServerState and its Default: players maps a connected client to its
\* name, lobbies a lobby id to its Lobby, player_2_lobby a client to a lobby id
ServerState_default ==
    [players        |-> [c \in {} |-> "Alice"],
     lobbies        |-> [l \in {} |-> Lobby_default],
     player_2_lobby |-> [c \in {} |-> 0]]

\* a map with one key removed, and with one entry inserted or replaced
remove(map, key) == [k \in DOMAIN map \ {key} |-> map[k]]
insert(map, key, value) == [k \in DOMAIN map \cup {key} |-> IF k = key THEN value ELSE map[k]]

\* get_player_lobby_mut: the id of the lobby a player is playing in, when
\* player_2_lobby has the player and lobbies has that lobby
get_player_lobby_mut(st, player_id) ==
    IF player_id \in DOMAIN st.player_2_lobby
    THEN {st.player_2_lobby[player_id]} \cap DOMAIN st.lobbies
    ELSE {}

\* add_lobby: the lobby id is always 0, and the insert replaces a lobby 0
\* that exists by a default one
add_lobby(st) ==
    [state |-> [st EXCEPT !.lobbies = insert(st.lobbies, 0, Lobby_default)], lobby_id |-> 0]

\* a join_lobby that lets a player into a lobby however many it holds
join_lobby_NoFullCheck(st, player_id, lobby_id) ==
    IF lobby_id \in DOMAIN st.lobbies
    THEN [state |-> [st EXCEPT
              !.lobbies[lobby_id].players = Append(@, player_id),
              !.player_2_lobby = insert(@, player_id, lobby_id)],
          result |-> "Ok"]
    ELSE [state |-> st, result |-> "NoSuchLobby"]

\* join_lobby(player_id, lobby_id) -> Result<(), CannotJoinLobbyReason>
join_lobby(st, player_id, lobby_id) ==
    IF lobby_id \in DOMAIN st.lobbies
    THEN IF Len(st.lobbies[lobby_id].players) >= 2
         THEN [state |-> st, result |-> "LobbyIsFull"]
         ELSE [state |-> [st EXCEPT
                   !.lobbies[lobby_id].players = Append(@, player_id),
                   !.player_2_lobby = insert(@, player_id, lobby_id)],
               result |-> "Ok"]
    ELSE [state |-> st, result |-> "NoSuchLobby"]

\* remove_player: the player and, when there was one, its player_2_lobby entry
remove_player(st, player_id) ==
    IF player_id \in DOMAIN st.players
    THEN [st EXCEPT !.players = remove(@, player_id),
                    !.player_2_lobby = remove(@, player_id)]
    ELSE st

\* remove_lobby: the player_2_lobby entries of the lobby's players, then the
\* lobby
remove_lobby(st, lobby_id) ==
    IF lobby_id \in DOMAIN st.lobbies
    THEN [st EXCEPT
             !.player_2_lobby =
                 [c \in DOMAIN @ \ {st.lobbies[lobby_id].players[i] :
                                        i \in 1..Len(st.lobbies[lobby_id].players)} |-> @[c]],
             !.lobbies = remove(@, lobby_id)]
    ELSE st

\* enum ServerMessage, the variants the server sends
ServerMessage_JoinLobby(lobby_id) == [type |-> "JoinLobby", lobby_id |-> lobby_id]
ServerMessage_CannotJoinLobby(lobby_id, reason) ==
    [type |-> "CannotJoinLobby", lobby_id |-> lobby_id, reason |-> reason]
ServerMessage_EndGame(reason) == [type |-> "EndGame", reason |-> reason]
ServerMessage_GameEvent(event) == [type |-> "GameEvent", event |-> event]

\* server.send_message(player_id, 0, message), for each id of a list in turn
RECURSIVE send_to_each(_, _, _)
send_to_each(ch, ids, message) ==
    IF ids = <<>> THEN ch
    ELSE send_to_each(IF Head(ids) \in DOMAIN ch
                      THEN [ch EXCEPT ![Head(ids)] = Append(@, message)]
                      ELSE ch,
                      Tail(ids), message)

\* event.is_valid_on(&game_state): the validator
is_valid_on(event, game_state) == validate(game_state, event)

\* game_state.dispatch(&event): the reducer
dispatch(game_state, event, found) == consume(game_state, event, found)

(* ---------------------------- the card set ---------------------------- *)
\* the card ids of a card specification file
CardIds == {"c1", "c2", "c3"}

\* the card specification files: a map from card id to CardSpec, of which
\* the tier is kept
CardFiles == UNION {[ids -> 0..MaxTier] : ids \in SUBSET CardIds}

\* the orders in which a HashMap may iterate over a set of keys
Orders(S) ==
    {o \in [1..Cardinality(S) -> S] : \A i, j \in 1..Cardinality(S) : i # j => o[i] # o[j]}

\* struct CardSet and its Default; tiers[i + 1] is the Vec's tiers[i]
CardSet(tiers, cards) == [tiers |-> tiers, cards |-> cards]
CardSet_default == CardSet(<<>>, [id \in {} |-> 0])

\* the highest tier of the cards, and 1 when there is no card
max_tier(cards) ==
    IF DOMAIN cards = {} THEN 1
    ELSE CHOOSE m \in {cards[id] : id \in DOMAIN cards} :
             \A id \in DOMAIN cards : cards[id] <= m

\* the loop of from_file: each card in turn is pushed to tiers[card.tier - 1].
\* For a card of tier 0 the subtraction overflows a u32: a build with
\* overflow checks panics there, one without them wraps to an index that is
\* out of bounds, which panics as well.
RECURSIVE push_cards(_, _, _)
push_cards(tiers, cards, order) ==
    IF order = <<>> THEN [tiers |-> tiers, panic |-> FALSE]
    ELSE LET index == cards[Head(order)] - 1
         IN  IF index < 0 \/ index >= Len(tiers)
             THEN [tiers |-> tiers, panic |-> TRUE]
             ELSE push_cards([tiers EXCEPT ![index + 1] = Append(@, Head(order))],
                             cards, Tail(order))

\* CardSet::from_file, for the cards read from the file and the order in
\* which the HashMap iterates over them
from_file(cards, order) ==
    LET pushed == push_cards([i \in 1..max_tier(cards) |-> <<>>], cards, order)
    IN  [card_set |-> CardSet(pushed.tiers, cards), panic |-> pushed.panic]

\* the card sets from_file returns
CardSets ==
    {from_file(cards, order).card_set :
        <<cards, order>> \in {<<c, o>> \in UNION {{c} \X Orders(DOMAIN c) : c \in CardFiles} :
                                 ~from_file(c, o).panic}}

\* rng.gen_range(low..high): the values it may return; it panics on an
\* empty range, which is the empty set here
gen_range(low, high) == IF low >= high THEN {} ELSE low..(high - 1)

\* a call that returned a card id, and one that panicked
CardReturned(id) == [panic |-> FALSE, ret |-> id]
CardPanicked == [panic |-> TRUE, ret |-> ""]

\* CardSet::get_card_from_tier(tier): its possible outcomes. tiers[tier]
\* panics for an index out of bounds. For an empty tier, tier.len() - 1
\* overflows a usize: with overflow checks that panics, without them every
\* index drawn is out of bounds of the empty Vec, which panics as well.
get_card_from_tier(card_set, tier) ==
    IF tier >= Len(card_set.tiers) THEN {CardPanicked}
    ELSE LET t == card_set.tiers[tier + 1]
         IN  IF Len(t) = 0 THEN {CardPanicked}
             ELSE LET random_index == gen_range(0, Len(t) - 1)
                  IN  IF random_index = {} THEN {CardPanicked}
                      ELSE {CardReturned(t[i + 1]) : i \in random_index}

(* ---------------------------- the caller ------------------------------- *)
VARIABLES
    state,      \* the GameState
    call,       \* the last call made on it: validate or consume, its event, its
                \* outcome, and how many times in a row validate was asked about it
    consumes,   \* the number of consume calls made so far
    winner,     \* the last call of determine_winner: whether there was one, and
                \* the Option it returned
    server,     \* the server's ServerState
    chan,       \* for each client, the messages the server sent to it, in order
    mirror,     \* for each client, its GameState, the number of messages it
                \* has received, and whether it panicked
    last,       \* the last input the server handled, and its outcome
    handled,    \* the number of inputs the server handled so far
    card_set,   \* the CardSet
    drawn       \* the last call of get_card_from_tier: its tier and its outcome

vars == <<state, call, consumes, winner, server, chan, mirror, last, handled, card_set, drawn>>
storeVars == <<state, call, consumes, winner>>
serverVars == <<server, chan, mirror, last, handled>>
cardVars == <<card_set, drawn>>

\* get_card_from_tier was not called yet
NoDraw == [op |-> "none", tier |-> 0, ret |-> "", panic |-> FALSE]

\* no card specification file is loaded
NoCards ==
    /\ card_set = CardSet_default
    /\ drawn = NoDraw

\* the server did not handle anything yet
NoInput ==
    [op |-> "none", client_id |-> 0, lobby_id |-> 0, event |-> BeginGame(0),
     accepted |-> FALSE, panic |-> FALSE]

\* the server and the clients right after they start
ServerInit ==
    /\ server = ServerState_default
    /\ chan = [c \in ClientIds |-> <<>>]
    /\ mirror = [c \in ClientIds |-> [game_state |-> default, received |-> 0, panic |-> FALSE]]
    /\ last = NoInput
    /\ handled = 0

\* determine_winner was not called yet
NoWinner == [called |-> FALSE, result |-> {}]

NoCall == [op |-> "none", event |-> BeginGame(0), ret |-> FALSE, panic |-> FALSE, n |-> 0]

Init ==
    /\ state = default
    /\ call = NoCall
    /\ consumes = 0
    /\ winner = NoWinner
    /\ ServerInit
    /\ NoCards

\* an accepted event waits for its consume
Pending == call.op = "validate" /\ call.ret /\ ~call.panic

\* mutant: a validator that logs the event it was asked about
Validate_Logging(e) ==
    /\ ~call.panic
    /\ Len(state.history) < MaxHistory
    /\ call.op = "validate" => (call.event = e /\ call.n < 2)
    /\ call' = [op |-> "validate", event |-> e,
                ret |-> validate(state, e).ret, panic |-> validate(state, e).panic,
                n |-> IF call.op = "validate" THEN call.n + 1 ELSE 1]
    /\ state' = push_history(state, e)
    /\ UNCHANGED <<consumes, winner>>
    /\ UNCHANGED serverVars
    /\ UNCHANGED cardVars

\* a call of validate(&self, &event): the state is borrowed immutably; the
\* caller may ask a second time about the event it holds before it acts on
\* the answer
Validate(e) ==
    /\ ~call.panic
    /\ Len(state.history) < MaxHistory
    /\ call.op = "validate" => (call.event = e /\ call.n < 2)
    /\ call' = [op |-> "validate", event |-> e,
                ret |-> validate(state, e).ret, panic |-> validate(state, e).panic,
                n |-> IF call.op = "validate" THEN call.n + 1 ELSE 1]
    /\ UNCHANGED <<state, consumes, winner>>
    /\ UNCHANGED serverVars
    /\ UNCHANGED cardVars

\* the call of consume(&mut self, &event) on the event validate accepted
Consume ==
    /\ Pending
    /\ \E found \in find_results(state, call.event) :
          LET r == consume(state, call.event, found)
          IN  /\ state' = r.state
              /\ call' = [op |-> "consume", event |-> call.event,
                          ret |-> ~r.panic, panic |-> r.panic, n |-> 0]
    /\ consumes' = consumes + 1
    /\ UNCHANGED winner
    /\ UNCHANGED serverVars
    /\ UNCHANGED cardVars

\* the caller lets go of the event validate rejected: nothing is applied
Drop ==
    /\ call.op = "validate"
    /\ ~call.ret
    /\ ~call.panic
    /\ call' = NoCall
    /\ UNCHANGED <<state, consumes, winner>>
    /\ UNCHANGED serverVars
    /\ UNCHANGED cardVars

Next ==
    \/ \E e \in GameEvent : Validate(e)
    \/ Consume
    \/ Drop

Spec == Init /\ [][Next]_vars

(* ---------------------------- a match played out ----------------------- *)
\* the events an opening is made of are consumed one after the other, each
\* one only when validate accepts it
RECURSIVE Replay(_, _)
Replay(s, h) ==
    IF h = <<>> THEN s
    ELSE IF validate(s, Head(h)) = Returned(TRUE)
         THEN Replay(consume(s, Head(h), CHOOSE f \in find_results(s, Head(h)) : TRUE).state,
                     Tail(h))
         ELSE s

\* the openings: two players have joined; three players have joined; two
\* players have joined and filled the first row and the second row
Openings ==
    { <<PlayerJoined(0, "Alice"), PlayerJoined(1, "Bob")>>,
      <<PlayerJoined(0, "Alice"), PlayerJoined(1, "Bob"), PlayerJoined(2, "Bob")>>,
      <<PlayerJoined(0, "Alice"), PlayerJoined(1, "Bob"),
        PlaceTile(0, 0), PlaceTile(1, 3), PlaceTile(0, 1), PlaceTile(1, 4),
        PlaceTile(0, 2), PlaceTile(1, 5)>> }

PlayInit ==
    /\ state \in {Replay(default, h) : h \in Openings}
    /\ call = NoCall
    /\ consumes = Len(state.history)
    /\ winner = NoWinner
    /\ ServerInit
    /\ NoCards

\* the events submitted while the match is played
PlayEvents == {PlaceTile(p, at) : p \in PlayerIds, at \in BoardIndex}

\* validate then consume: the event is applied when validate accepts it
Play(e) ==
    /\ ~call.panic
    /\ consumes < MaxPlay
    /\ validate(state, e) = Returned(TRUE)
    /\ \E found \in find_results(state, e) :
          LET r == consume(state, e, found)
          IN  /\ state' = r.state
              /\ call' = [op |-> "consume", event |-> e,
                          ret |-> ~r.panic, panic |-> r.panic, n |-> 0]
    /\ consumes' = consumes + 1
    /\ winner' = NoWinner
    /\ UNCHANGED serverVars
    /\ UNCHANGED cardVars

\* a call of determine_winner(&self)
DetermineWinner ==
    /\ ~call.panic
    /\ ~winner.called
    /\ \E r \in determine_winner(state) : winner' = [called |-> TRUE, result |-> r]
    /\ UNCHANGED <<state, call, consumes>>
    /\ UNCHANGED serverVars
    /\ UNCHANGED cardVars

PlayNext ==
    \/ \E e \in PlayEvents : Play(e)
    \/ DetermineWinner

PlaySpec == PlayInit /\ [][PlayNext]_vars

(* ---------------------------- the server and its clients --------------- *)
\* the game events the clients submit
ServerEvents ==
    {PlayerJoined(p, "Alice") : p \in PlayerIds}
        \cup {PlaceTile(p, at) : p \in PlayerIds, at \in {0, 4}}

\* what the server keeps of an input it handled; lobby_id is the lobby id a
\* TryJoinLobby message carries, and 0 for every other input
Handled(op, client_id, event, accepted, panic) ==
    [op |-> op, client_id |-> client_id, lobby_id |-> 0, event |-> event,
     accepted |-> accepted, panic |-> panic]

\* the server's loop takes an input while it runs
Running ==
    /\ ~last.panic
    /\ handled < MaxHandled

\* ServerEvent::ClientConnected(id, user_data); the client behind a new
\* connection starts with GameState::default() and is sent what follows
ClientConnected(id, name) ==
    /\ Running
    /\ id \notin DOMAIN server.players
    /\ server' = [server EXCEPT !.players = insert(@, id, name)]
    /\ mirror' = [mirror EXCEPT ![id] =
                      [game_state |-> default, received |-> Len(chan[id]), panic |-> FALSE]]
    /\ last' = Handled("ClientConnected", id, BeginGame(0), TRUE, FALSE)
    /\ handled' = handled + 1
    /\ UNCHANGED chan
    /\ UNCHANGED storeVars
    /\ UNCHANGED cardVars

\* ServerEvent::ClientDisconnected(id)
ClientDisconnected(id) ==
    /\ Running
    /\ id \in DOMAIN server.players
    /\ LET lobby_id == IF id \in DOMAIN server.player_2_lobby
                       THEN {server.player_2_lobby[id]} ELSE {}
           removed == remove_player(server, id)
       IN  IF lobby_id \cap DOMAIN removed.lobbies # {}
           THEN LET l == CHOOSE l \in lobby_id : TRUE
                IN  /\ server' = remove_lobby(removed, l)
                    /\ chan' = send_to_each(chan, removed.lobbies[l].players,
                                            ServerMessage_EndGame("OpponentDisconnect"))
           ELSE /\ server' = removed
                /\ UNCHANGED chan
    /\ last' = Handled("ClientDisconnected", id, BeginGame(0), TRUE, FALSE)
    /\ handled' = handled + 1
    /\ UNCHANGED mirror
    /\ UNCHANGED storeVars
    /\ UNCHANGED cardVars

\* ClientMessage::CreateLobby from client_id
CreateLobby(client_id) ==
    /\ Running
    /\ client_id \in DOMAIN server.players
    /\ LET added == add_lobby(server)
           joined == join_lobby(added.state, added.lobby_id, client_id)
       IN  /\ server' = joined.state
           /\ chan' = IF joined.result = "Ok"
                      THEN send_to_each(chan, <<client_id>>,
                                        ServerMessage_JoinLobby(added.lobby_id))
                      ELSE chan
           /\ last' = Handled("CreateLobby", client_id, BeginGame(0),
                              joined.result = "Ok", FALSE)
    /\ handled' = handled + 1
    /\ UNCHANGED mirror
    /\ UNCHANGED storeVars
    /\ UNCHANGED cardVars

\* ClientMessage::TryJoinLobby { lobby_id } from client_id
TryJoinLobby(client_id, lobby_id) ==
    /\ Running
    /\ client_id \in DOMAIN server.players
    /\ LET joined == join_lobby(server, client_id, lobby_id)
       IN  /\ server' = joined.state
           /\ chan' = IF joined.result # "Ok"
                      THEN send_to_each(chan, <<client_id>>,
                               ServerMessage_CannotJoinLobby(lobby_id, joined.result))
                      ELSE send_to_each(chan, <<client_id>>,
                               ServerMessage_JoinLobby(lobby_id))
           /\ last' = [Handled("TryJoinLobby", client_id, BeginGame(0),
                               joined.result = "Ok", FALSE) EXCEPT !.lobby_id = lobby_id]
    /\ handled' = handled + 1
    /\ UNCHANGED mirror
    /\ UNCHANGED storeVars
    /\ UNCHANGED cardVars

\* a rejection that is answered with a message to the sender
Rejected_Reply(client_id, event) ==
    /\ last' = Handled("GameEvent", client_id, event, FALSE, FALSE)
    /\ chan' = send_to_each(chan, <<client_id>>, ServerMessage_EndGame("GameEnded"))
    /\ UNCHANGED server

\* the event is not applied: the two ifs have no else branch
Rejected(client_id, event) ==
    /\ last' = Handled("GameEvent", client_id, event, FALSE, FALSE)
    /\ UNCHANGED <<server, chan>>

\* ClientMessage::GameEvent { event } from client_id
GameEventMessage(client_id, event) ==
    /\ Running
    /\ client_id \in DOMAIN server.players
    /\ LET lobby == get_player_lobby_mut(server, client_id)
       IN  IF lobby = {}
           THEN Rejected(client_id, event)
           ELSE LET l == CHOOSE l \in lobby : TRUE
                    valid == is_valid_on(event, server.lobbies[l].game_state)
                IN  IF valid.panic
                    THEN /\ last' = Handled("GameEvent", client_id, event, FALSE, TRUE)
                         /\ UNCHANGED <<server, chan>>
                    ELSE IF ~valid.ret
                    THEN Rejected(client_id, event)
                    ELSE \E found \in find_results(server.lobbies[l].game_state, event) :
                           LET r == dispatch(server.lobbies[l].game_state, event, found)
                           IN  /\ server' = [server EXCEPT !.lobbies[l].game_state = r.state]
                               /\ chan' = IF r.panic THEN chan
                                          ELSE send_to_each(chan, server.lobbies[l].players,
                                                            ServerMessage_GameEvent(event))
                               /\ last' = Handled("GameEvent", client_id, event, TRUE, r.panic)
    /\ handled' = handled + 1
    /\ UNCHANGED mirror
    /\ UNCHANGED storeVars
    /\ UNCHANGED cardVars

\* receive_events_from_server, one turn of its loop in client c: the next
\* message is taken; a game event is consumed without validate. The bytes of
\* the messages are the transport's: a message that carries no game event
\* is taken and leaves the GameState as it is.
receive_events_from_server(c) ==
    /\ c \in DOMAIN server.players
    /\ ~mirror[c].panic
    /\ mirror[c].received < Len(chan[c])
    /\ LET message == chan[c][mirror[c].received + 1]
       IN  IF message.type = "GameEvent"
           THEN \E found \in find_results(mirror[c].game_state, message.event) :
                  LET r == consume(mirror[c].game_state, message.event, found)
                  IN  mirror' = [mirror EXCEPT ![c] =
                                    [game_state |-> r.state,
                                     received |-> @.received + 1,
                                     panic |-> r.panic]]
           ELSE mirror' = [mirror EXCEPT ![c].received = @ + 1]
    /\ UNCHANGED <<server, chan, last, handled>>
    /\ UNCHANGED storeVars
    /\ UNCHANGED cardVars

ServerNext ==
    \/ \E id \in ClientIds : ClientConnected(id, "Alice")
    \/ \E id \in ClientIds : ClientDisconnected(id)
    \/ \E client_id \in ClientIds : CreateLobby(client_id)
    \/ \E client_id \in ClientIds, lobby_id \in LobbyIds : TryJoinLobby(client_id, lobby_id)
    \/ \E client_id \in ClientIds, event \in ServerEvents : GameEventMessage(client_id, event)
    \/ \E c \in ClientIds : receive_events_from_server(c)

ServerSpec == Init /\ [][ServerNext]_vars

(* ---------------------------- drawing cards ---------------------------- *)
\* a card set was loaded by from_file, or is the default one
DrawInit ==
    /\ state = default
    /\ call = NoCall
    /\ consumes = 0
    /\ winner = NoWinner
    /\ ServerInit
    /\ card_set \in CardSets \cup {CardSet_default}
    /\ drawn = NoDraw

\* card_set.get_card_from_tier(tier)
GetCardFromTier(tier) ==
    /\ ~drawn.panic
    /\ \E outcome \in get_card_from_tier(card_set, tier) :
          drawn' = [op |-> "get_card_from_tier", tier |-> tier,
                    ret |-> outcome.ret, panic |-> outcome.panic]
    /\ UNCHANGED card_set
    /\ UNCHANGED storeVars
    /\ UNCHANGED serverVars

DrawNext == \E tier \in 0..MaxTier : GetCardFromTier(tier)

DrawSpec == DrawInit /\ [][DrawNext]_vars

(* ---------------------------- properties ------------------------------- *)
\* the step is a consume call of an event of the given variant
Consumed(type) == call'.op = "consume" /\ call'.event.type = type

\* C1: validate accepts PlaceTile{player_id, at} exactly when player_id is a
\* key of players, it is that player's turn, at is in 0..8 and board[at] is
\* Empty; otherwise it returns false, and for at >= 9 it returns false
\* without indexing the board (it does not panic). This is checked of every
\* PlaceTile in each state the GameState is left in by the start, a consume
\* or a dropped event, and of the outcome of each validate call made (a
\* validate call leaves the GameState as it is).
C1_ValidatePlaceTile ==
    /\ call.op # "validate"
          => \A p \in PlayerIds, at \in Ats :
                validate(state, PlaceTile(p, at)) =
                    Returned(/\ p \in DOMAIN state.players
                             /\ state.active_player_id = p
                             /\ at \in 0..8
                             /\ state.board[at] = "Empty")
    /\ (call.op = "validate" /\ call.event.type = "PlaceTile")
          => /\ ~call.panic
             /\ call.ret = (/\ call.event.player_id \in DOMAIN state.players
                            /\ state.active_player_id = call.event.player_id
                            /\ call.event.at \in 0..8
                            /\ state.board[call.event.at] = "Empty")

\* validate has just accepted a PlaceTile on a board that already holds a tile
C1_Witness ==
    /\ call.op = "validate"
    /\ call.event.type = "PlaceTile"
    /\ call.ret
    /\ \E i \in BoardIndex : state.board[i] # "Empty"

\* C2: validate accepts BeginGame{goes_first} exactly when the stage is
\* PreGame and goes_first is the id of a player present in players
C2_ValidateBeginGame ==
    \A g \in PlayerIds :
        validate(state, BeginGame(g)) =
            Returned(state.stage = "PreGame" /\ g \in DOMAIN state.players)

\* between two tiles placed by the same player with no tile placed in
\* between, the set of players has changed
NoTwoInARow(h) ==
    \A i, j \in 1..Len(h) :
        (/\ i < j
         /\ h[i].type = "PlaceTile"
         /\ h[j].type = "PlaceTile"
         /\ h[i].player_id = h[j].player_id
         /\ \A k \in (i+1)..(j-1) : h[k].type # "PlaceTile")
        => \E k \in (i+1)..(j-1) : h[k].type \in {"PlayerJoined", "PlayerDisconnected"}

\* C3: with exactly two players A and B, InGame and A's turn, consuming a
\* validated PlaceTile{A, at} hands the turn to B; and while the players
\* stay the same no player places two tiles in a row
C3_Alternation ==
    [][/\ (/\ Consumed("PlaceTile")
           /\ state.stage = "InGame"
           /\ Cardinality(DOMAIN state.players) = 2
           /\ state.active_player_id = call'.event.player_id)
          => /\ state'.active_player_id \in DOMAIN state.players
             /\ state'.active_player_id # call'.event.player_id
             /\ \A at \in Ats :
                   validate(state', PlaceTile(call'.event.player_id, at)) = Returned(FALSE)
       /\ NoTwoInARow(state'.history)]_vars

\* a PlaceTile was consumed InGame with two players and the turn went over
C3_Witness ==
    /\ call.op = "consume"
    /\ call.event.type = "PlaceTile"
    /\ ~call.panic
    /\ state.stage = "InGame"
    /\ Cardinality(DOMAIN state.players) = 2
    /\ state.active_player_id # call.event.player_id

\* C4: the board always has 9 cells, and a cell only changes from Empty to
\* the piece of the player whose PlaceTile is consumed, so a non-Empty cell
\* keeps its value in every later state
C4_BoardMonotone ==
    [][/\ DOMAIN state'.board = 0..8
       /\ \A i \in 0..8 :
             state'.board[i] # state.board[i]
             => /\ state.board[i] = "Empty"
                /\ Consumed("PlaceTile")
                /\ call'.event.at = i
                /\ call'.event.player_id \in DOMAIN state.players
                /\ state'.board[i] = state.players[call'.event.player_id].piece
                /\ state'.board[i] # "Empty"]_vars

\* a second tile was placed and the first one is still where it was put
C4_Witness ==
    /\ call.op = "consume"
    /\ call.event.type = "PlaceTile"
    /\ \E i \in BoardIndex :
          /\ i # call.event.at
          /\ state.board[i] # "Empty"
          /\ state.board[call.event.at] # "Empty"

\* C5: every consume call appends exactly its event as the last element of
\* history and leaves the earlier elements as they were; after N consume
\* calls history has length N
C5_HistoryAppend ==
    [][call'.op = "consume"
       => /\ state'.history = Append(state.history, call'.event)
          /\ Len(state'.history) = consumes']_vars

\* C6: validate leaves the whole GameState unchanged, whether it accepts or
\* rejects, and asked again about the same event it gives the same answer
C6_ValidatePure ==
    [][call'.op = "validate"
       => /\ state' = state
          /\ (call.op = "validate" /\ call.event = call'.event)
             => (call'.ret = call.ret /\ call'.panic = call.panic)]_vars

\* validate was asked twice about an event it rejects, after some events
C6_Witness ==
    /\ call.op = "validate"
    /\ call.n = 2
    /\ ~call.ret
    /\ state.history # <<>>

\* C7: validate rejects every PlaceTile while fewer than 2 players are
\* present, and consume of an accepted PlaceTile never fails to find the
\* other player
C7_NoFatalUnwrap ==
    /\ Cardinality(DOMAIN state.players) < 2
       => \A p \in PlayerIds, at \in Ats :
             validate(state, PlaceTile(p, at)) = Returned(FALSE)
    /\ ~(call.op = "consume" /\ call.panic)

\* C8: consume(PlaceTile{player_id, at}) writes the piece players assigns to
\* player_id into board[at] and leaves the other cells, the stage, the
\* players and the earlier history unchanged
C8_PlaceTileFrame ==
    [][Consumed("PlaceTile")
       => LET e == call'.event
          IN  /\ state'.board[e.at] = state.players[e.player_id].piece
              /\ \A i \in BoardIndex \ {e.at} : state'.board[i] = state.board[i]
              /\ state'.stage = state.stage
              /\ state'.players = state.players
              /\ Len(state'.history) >= Len(state.history)
              /\ SubSeq(state'.history, 1, Len(state.history)) = state.history]_vars

\* the second player (piece Tac) has placed its piece next to another tile
C8_Witness ==
    /\ call.op = "consume"
    /\ call.event.type = "PlaceTile"
    /\ call.event.player_id \in DOMAIN state.players
    /\ state.players[call.event.player_id].piece = "Tac"
    /\ state.board[call.event.at] = "Tac"
    /\ \E i \in BoardIndex : state.board[i] = "Tic"

C10_PieceStable ==
    [][/\ \A p \in DOMAIN state'.players : state'.players[p].piece # "Empty"
       /\ \A p \in DOMAIN state.players \cap DOMAIN state'.players :
             state'.players[p].piece = state.players[p].piece]_vars

\* two players are present and events were consumed after both had joined
C10_Witness ==
    /\ call.op = "consume"
    /\ Cardinality(DOMAIN state.players) = 2
    /\ Len(state.history) >= 4
    /\ state.history[1].type = "PlayerJoined"
    /\ state.history[2].type = "PlayerJoined"

\* C11: validate rejects PlayerJoined{player_id, name} exactly when player_id
\* is already a key of players, whatever the name and the stage
C11_ValidatePlayerJoined ==
    \A p \in PlayerIds, n \in Names :
        validate(state, PlayerJoined(p, n)) = Returned(p \notin DOMAIN state.players)

\* a join of a present player was rejected after the game had begun
C11_Witness ==
    /\ call.op = "validate"
    /\ call.event.type = "PlayerJoined"
    /\ ~call.ret
    /\ call.event.player_id \in DOMAIN state.players
    /\ state.stage # "PreGame"

\* C12: validate rejects PlayerDisconnected{player_id} exactly when player_id
\* is not a key of players, and consume removes exactly that entry and
\* leaves the other players, the board and the stage unchanged
C12_Disconnect ==
    [][/\ \A p \in PlayerIds :
             /\ validate(state, PlayerDisconnected(p)) = Returned(p \in DOMAIN state.players)
             /\ validate(state', PlayerDisconnected(p)) = Returned(p \in DOMAIN state'.players)
       /\ Consumed("PlayerDisconnected")
          => /\ DOMAIN state'.players = DOMAIN state.players \ {call'.event.player_id}
             /\ \A q \in DOMAIN state'.players : state'.players[q] = state.players[q]
             /\ state'.board = state.board
             /\ state'.stage = state.stage]_vars

\* a player was removed while another one stayed and a tile was on the board
C12_Witness ==
    /\ call.op = "consume"
    /\ call.event.type = "PlayerDisconnected"
    /\ call.event.player_id \notin DOMAIN state.players
    /\ DOMAIN state.players # {}
    /\ \E i \in BoardIndex : state.board[i] # "Empty"

\* C13: validate accepts EndGame{PlayerWon{winner}} exactly when the stage is
\* InGame, for any winner, and EndGame{PlayerLeft{player_id}} in every stage
\* and for every player_id
C13_ValidateEndGame ==
    /\ \A w \in PlayerIds :
          validate(state, EndGame(PlayerWon(w))) = Returned(state.stage = "InGame")
    /\ \A p \in PlayerIds :
          validate(state, EndGame(PlayerLeft(p))) = Returned(TRUE)

\* the win of an id that is not a player was accepted InGame
C13_Witness ==
    /\ call.op = "validate"
    /\ call.event.type = "EndGame"
    /\ call.event.reason.type = "PlayerWon"
    /\ call.ret
    /\ state.stage = "InGame"
    /\ call.event.reason.winner \notin DOMAIN state.players

\* C14: consume(BeginGame{goes_first}) sets active_player_id to goes_first
\* and the stage to InGame, and leaves the board and the players unchanged
C14_BeginGameFrame ==
    [][Consumed("BeginGame")
       => /\ state'.active_player_id = call'.event.goes_first
          /\ state'.stage = "InGame"
          /\ state'.board = state.board
          /\ state'.players = state.players]_vars

\* a game was begun with players present and the turn given to another id
\* than the default one
C14_Witness ==
    /\ call.op = "consume"
    /\ call.event.type = "BeginGame"
    /\ call.event.goes_first # 0
    /\ state.active_player_id = call.event.goes_first
    /\ state.stage = "InGame"
    /\ DOMAIN state.players # {}

\* player p was disconnected and has not joined again since
HasLeft(h, p) ==
    \E i \in 1..Len(h) :
        /\ h[i] = PlayerDisconnected(p)
        /\ \A j \in (i+1)..Len(h) :
              ~(h[j].type = "PlayerJoined" /\ h[j].player_id = p)

\* C17: after consume(PlayerDisconnected{p}) p is absent from players, and
\* until p joins again validate rejects every event that names p as actor:
\* PlaceTile{p, at}, PlayerDisconnected{p} and BeginGame{goes_first: p}
C17_AbsentActorRejected ==
    \A p \in PlayerIds :
        HasLeft(state.history, p)
        => /\ p \notin DOMAIN state.players
           /\ \A at \in Ats : validate(state, PlaceTile(p, at)) = Returned(FALSE)
           /\ validate(state, PlayerDisconnected(p)) = Returned(FALSE)
           /\ validate(state, BeginGame(p)) = Returned(FALSE)

\* the lines of the board that hold three equal tiles which are not Empty
CompleteLines(s) ==
    {k \in 1..Len(WinLines) :
        /\ s.board[WinLines[k][1]] # "Empty"
        /\ \A i \in 1..3 : s.board[WinLines[k][i]] = s.board[WinLines[k][1]]}

\* a result that is None when no line is complete, and otherwise names a
\* present player whose piece, which is not Empty, fills a complete line
SoundResult(s, r) ==
    /\ \A p \in r :
          /\ p \in DOMAIN s.players
          /\ s.players[p].piece # "Empty"
          /\ \E k \in CompleteLines(s) : s.board[WinLines[k][1]] = s.players[p].piece
    /\ CompleteLines(s) = {} => r = {}

\* C15: soundness of determine_winner. Whenever it returns Some(p), p is a key
\* of players and one of the 8 lines has its three cells equal to the piece of
\* p, which is not Empty; whenever no line holds three equal tiles that are not
\* Empty, the all-Empty board included, it returns None. This is checked of
\* the result of each call made, and of every result a call can return in
\* each state in which none was made yet.
C15_WinnerSound ==
    IF winner.called
    THEN SoundResult(state, winner.result)
    ELSE \A r \in determine_winner(state) : SoundResult(state, r)

\* determine_winner returned Some(p) on a board with a complete column
C15_Witness ==
    /\ winner.called
    /\ winner.result # {}
    /\ CompleteLines(state) \cap {4, 5, 6} # {}

\* the player who placed the tile at a cell, from the history
Placers(h, at) ==
    {h[i].player_id : i \in {j \in 1..Len(h) : h[j].type = "PlaceTile" /\ h[j].at = at}}

\* C16: completeness of determine_winner. In every reachable state in which a
\* line holds three equal tiles that are not Empty, determine_winner returns
\* Some(p) where p is the player who placed the three tiles of a complete
\* line and whose piece they are: not None, not another player's id.
C16_WinnerComplete ==
    (winner.called /\ CompleteLines(state) # {})
        => \E k \in CompleteLines(state), p \in DOMAIN state.players :
              /\ \A i \in 1..3 : Placers(state.history, WinLines[k][i]) = {p}
              /\ state.players[p].piece = state.board[WinLines[k][1]]
              /\ winner.result = {p}

\* C18: mirror consistency. A client that has consumed exactly the events the
\* server accepted for a lobby, in the server's order (its history is the
\* history of the lobby's GameState), has the same stage, board,
\* active_player_id, players and history as the server, as long as neither
\* of them panicked.
C18_MirrorConsistent ==
    \A c \in ClientIds, l \in DOMAIN server.lobbies :
        (/\ ~last.panic
         /\ ~mirror[c].panic
         /\ mirror[c].game_state.history = server.lobbies[l].game_state.history)
            => mirror[c].game_state = server.lobbies[l].game_state

\* a step in which the server handled a game event message
HandledGameEvent == handled' = handled + 1 /\ last'.op = "GameEvent"

\* C19: a game event that the GameState of the sender's lobby rejects is
\* dropped: the lobbies, their GameStates and histories included, and the
\* rest of the server's state are unchanged, and no message is sent to any
\* client.
C19_RejectedDropped ==
    [][(HandledGameEvent /\ ~last'.accepted)
          => (server' = server /\ chan' = chan)]_vars

\* the server rejected a PlaceTile of a client whose lobby has two members
\* and a player in its GameState
C19_Witness ==
    /\ last.op = "GameEvent"
    /\ ~last.accepted
    /\ ~last.panic
    /\ last.event.type = "PlaceTile"
    /\ get_player_lobby_mut(server, last.client_id) # {}
    /\ \E l \in get_player_lobby_mut(server, last.client_id) :
          /\ Len(server.lobbies[l].players) = 2
          /\ DOMAIN server.lobbies[l].game_state.players # {}
          /\ is_valid_on(last.event, server.lobbies[l].game_state) = Returned(FALSE)

\* C20: a game event the server accepts is applied to the GameState of the
\* sender's lobby, where it becomes the last event of the history, and is
\* then sent to every player of the lobby; and a game event is only ever
\* sent to a client in the step in which the server accepted that event.
C20_AcceptedBroadcast ==
    [][/\ (HandledGameEvent /\ last'.accepted)
          => \E l \in get_player_lobby_mut(server, last'.client_id) :
                /\ server'.lobbies[l].game_state.history
                       = Append(server.lobbies[l].game_state.history, last'.event)
                /\ \E found \in find_results(server.lobbies[l].game_state, last'.event) :
                      server'.lobbies[l].game_state
                          = consume(server.lobbies[l].game_state, last'.event, found).state
                /\ chan' = send_to_each(chan, server.lobbies[l].players,
                                        ServerMessage_GameEvent(last'.event))
       /\ \A c \in ClientIds :
             (Len(chan'[c]) > Len(chan[c]) /\ chan'[c][Len(chan'[c])].type = "GameEvent")
                => /\ HandledGameEvent /\ last'.accepted
                   /\ chan'[c][Len(chan'[c])].event = last'.event]_vars

\* the ids in a list of players
Members(players) == {players[i] : i \in 1..Len(players)}

\* C21: after the server handled an input, player_2_lobby maps a player p to
\* a lobby l if and only if lobby l exists and p is in its players list, and
\* every player in player_2_lobby is a connected player.
C21_ReverseIndex ==
    /\ \A p \in DOMAIN server.player_2_lobby :
          /\ server.player_2_lobby[p] \in DOMAIN server.lobbies
          /\ p \in Members(server.lobbies[server.player_2_lobby[p]].players)
          /\ p \in DOMAIN server.players
    /\ \A l \in DOMAIN server.lobbies :
          \A p \in Members(server.lobbies[l].players) :
              /\ p \in DOMAIN server.player_2_lobby
              /\ server.player_2_lobby[p] = l

\* the lobbies that exist before a step and are gone or different after it
ChangedLobbies ==
    {l \in DOMAIN server.lobbies :
        l \notin DOMAIN server'.lobbies \/ server'.lobbies[l] # server.lobbies[l]}

\* C22: lobbies are independent. Handling a GameEvent changes the players
\* list and the GameState of no lobby but the one the sender is in, handling
\* a TryJoinLobby those of at most one lobby, and handling a CreateLobby
\* leaves the players and the GameState of every lobby that already exists
\* unchanged.
C22_LobbiesIndependent ==
    [][(handled' = handled + 1)
          => /\ last'.op = "GameEvent"
                  => ChangedLobbies \subseteq get_player_lobby_mut(server, last'.client_id)
             /\ last'.op = "TryJoinLobby" => Cardinality(ChangedLobbies) <= 1
             /\ last'.op = "CreateLobby" => ChangedLobbies = {}]_vars

\* C23: in every state reachable by validate-then-consume, players has at
\* most 2 entries, and validate rejects a PlayerJoined that would add a third
\* player.
C23_AtMostTwoPlayers ==
    /\ Cardinality(DOMAIN state.players) <= 2
    /\ Cardinality(DOMAIN state.players) = 2
          => \A p \in PlayerIds \ DOMAIN state.players, n \in Names :
                validate(state, PlayerJoined(p, n)) = Returned(FALSE)

\* C24: the stage gates moves. validate accepts a PlaceTile only when the
\* stage is InGame, and no board cell changes in a step taken while the
\* stage is PreGame or Ended.
C24_StageGatesMoves ==
    [][/\ (call'.op = "validate" /\ call'.event.type = "PlaceTile" /\ call'.ret)
          => state.stage = "InGame"
       /\ state.stage # "InGame" => state'.board = state.board]_vars

\* C25: the stage only moves forward. consume(EndGame) sets the stage to
\* Ended; no step takes the stage from InGame back to PreGame, and no step
\* takes it out of Ended; validate rejects every BeginGame once the stage is
\* not PreGame.
C25_StageForward ==
    [][/\ Consumed("EndGame") => state'.stage = "Ended"
       /\ state.stage = "InGame" => state'.stage \in {"InGame", "Ended"}
       /\ state.stage = "Ended" => state'.stage = "Ended"
       /\ state.stage # "PreGame"
             => \A g \in PlayerIds : validate(state, BeginGame(g)) = Returned(FALSE)]_vars

\* a game was begun and ended, and a BeginGame for an id that is not a player
\* has just been rejected
C25_Witness ==
    /\ state.stage = "Ended"
    /\ \E i \in 1..Len(state.history) : state.history[i].type = "BeginGame"
    /\ call.op = "validate"
    /\ call.event.type = "BeginGame"
    /\ ~call.ret
    /\ call.event.goes_first \notin DOMAIN state.players

\* the number of players after the first k events of a history of accepted
\* events
PresentAfter(h, k) ==
    Cardinality({i \in 1..k : h[i].type = "PlayerJoined"})
        - Cardinality({i \in 1..k : h[i].type = "PlayerDisconnected"})

\* C26: in every reachable state any two distinct players present in players
\* hold different pieces, also after a player disconnected and another one
\* joined in their place. It is stated here of the runs in which there were
\* never more than two players at a time.
C26_DistinctPieces ==
    (\A k \in 0..Len(state.history) : PresentAfter(state.history, k) <= 2)
        => \A p, q \in DOMAIN state.players :
              p # q => state.players[p].piece # state.players[q].piece

\* C27: whenever the stage is InGame, active_player_id is the id of a player
\* present in players.
C27_ActivePresent ==
    state.stage = "InGame" => state.active_player_id \in DOMAIN state.players

\* the positions of the PlaceTile events in a history
PlaceTilesIn(h) == {k \in 1..Len(h) : h[k].type = "PlaceTile"}

\* C28: in every reachable state the number of board cells that are not
\* Empty equals the number of PlaceTile events in the history, no two of
\* these events name the same cell, and there are at most 9 of them.
C28_TilesMatchHistory ==
    /\ Cardinality({i \in BoardIndex : state.board[i] # "Empty"})
           = Cardinality(PlaceTilesIn(state.history))
    /\ \A j, k \in PlaceTilesIn(state.history) :
           j # k => state.history[j].at # state.history[k].at
    /\ Cardinality(PlaceTilesIn(state.history)) <= BoardLen

\* the order of the scan: the rows, then the columns, then the diagonals
ScanOrder ==
    << <<0, 1, 2>>, <<3, 4, 5>>, <<6, 7, 8>>,
       <<0, 3, 6>>, <<1, 4, 7>>, <<2, 5, 8>>,
       <<0, 4, 8>>, <<2, 4, 6>> >>

\* the lines whose three tiles are equal and are the piece of a present player
OwnedLines(s) ==
    {k \in 1..Len(ScanOrder) :
        /\ \A i \in 1..3 : s.board[ScanOrder[k][i]] = s.board[ScanOrder[k][1]]
        /\ \E p \in DOMAIN s.players : s.players[p].piece = s.board[ScanOrder[k][1]]}

\* the results that name an owner of the first such line, None without one
FirstLineOwners(s) ==
    IF OwnedLines(s) = {} THEN {{}}
    ELSE LET first == CHOOSE k \in OwnedLines(s) : \A j \in OwnedLines(s) : k <= j
         IN  {{p} : p \in {q \in DOMAIN s.players :
                               s.players[q].piece = s.board[ScanOrder[first][1]]}}

\* C29: determine_winner scans the lines in the order rows, columns,
\* diagonals and returns the owner of the first line in that order whose
\* three tiles are equal and are a present player's piece; when two complete
\* lines belong to different players, the earlier line decides. This is
\* checked of the result of each call made, and of every result a call can
\* return in each state in which none was made yet.
C29_ScanOrder ==
    IF winner.called
    THEN winner.result \in FirstLineOwners(state)
    ELSE determine_winner(state) \subseteq FirstLineOwners(state)

\* the first row and the second row are complete and belong to different
\* players, and determine_winner returned the owner of the first row
C29_Witness ==
    /\ winner.called
    /\ {1, 2} \subseteq CompleteLines(state)
    /\ state.board[0] # state.board[3]
    /\ \E p \in DOMAIN state.players :
          state.players[p].piece = state.board[0] /\ winner.result = {p}

\* C30: the server applies a game event received from client c only on
\* behalf of c: an accepted PlaceTile, PlayerDisconnected or PlayerJoined
\* names the sending client as its player_id.
C30_OnBehalfOfSender ==
    [][(/\ HandledGameEvent
        /\ last'.accepted
        /\ last'.event.type \in {"PlaceTile", "PlayerDisconnected", "PlayerJoined"})
          => last'.event.player_id = last'.client_id]_vars

\* C31: after the server handled CreateLobby from a connected client c, a
\* lobby exists whose players list contains c, player_2_lobby maps c to that
\* lobby, and the last message sent to c is JoinLobby for that lobby.
C31_CreateLobbyJoins ==
    [][(handled' = handled + 1 /\ last'.op = "CreateLobby")
          => \E l \in DOMAIN server'.lobbies :
                /\ last'.client_id \in Members(server'.lobbies[l].players)
                /\ last'.client_id \in DOMAIN server'.player_2_lobby
                /\ server'.player_2_lobby[last'.client_id] = l
                /\ Len(chan'[last'.client_id]) = Len(chan[last'.client_id]) + 1
                /\ chan'[last'.client_id][Len(chan'[last'.client_id])]
                       = ServerMessage_JoinLobby(l)]_vars

\* C32: every lobby's players list holds at most 2 entries and never the
\* same player id twice.
C32_LobbyPlayersDistinct ==
    \A l \in DOMAIN server.lobbies :
        /\ Len(server.lobbies[l].players) <= 2
        /\ Cardinality(Members(server.lobbies[l].players)) = Len(server.lobbies[l].players)

\* the one reply a TryJoinLobby{l} is to get in a server state st
TryJoinReply(st, l) ==
    IF l \notin DOMAIN st.lobbies THEN ServerMessage_CannotJoinLobby(l, "NoSuchLobby")
    ELSE IF Len(st.lobbies[l].players) = 2 THEN ServerMessage_CannotJoinLobby(l, "LobbyIsFull")
    ELSE ServerMessage_JoinLobby(l)

\* C33: TryJoinLobby{lobby_id} from client c gets exactly one reply:
\* CannotJoinLobby{lobby_id, NoSuchLobby} when the lobby does not exist,
\* CannotJoinLobby{lobby_id, LobbyIsFull} when it already has 2 players, and
\* JoinLobby{lobby_id} otherwise. On either failure lobbies and
\* player_2_lobby are unchanged; on success c is appended to the lobby and
\* mapped to it.
C33_TryJoinLobbyReply ==
    [][(handled' = handled + 1 /\ last'.op = "TryJoinLobby")
          => LET c == last'.client_id
                 l == last'.lobby_id
                 reply == TryJoinReply(server, l)
             IN  /\ chan' = [chan EXCEPT ![c] = Append(@, reply)]
                 /\ reply.type = "CannotJoinLobby"
                       => /\ server'.lobbies = server.lobbies
                          /\ server'.player_2_lobby = server.player_2_lobby
                 /\ reply.type = "JoinLobby"
                       => /\ server'.lobbies =
                                 [server.lobbies EXCEPT ![l].players = Append(@, c)]
                          /\ server'.player_2_lobby = insert(server.player_2_lobby, c, l)]_vars

\* a client has been answered in each of the three ways, last with a
\* refusal by a full lobby
C33_Witness ==
    /\ last.op = "TryJoinLobby"
    /\ \E c \in ClientIds, l \in LobbyIds :
          /\ last.client_id = c
          /\ last.lobby_id = l
          /\ Len(chan[c]) > 0
          /\ chan[c][Len(chan[c])] = ServerMessage_CannotJoinLobby(l, "LobbyIsFull")
          /\ l \in DOMAIN server.lobbies
          /\ Len(server.lobbies[l].players) = 2
          /\ \E i, j \in 1..Len(chan[c]) :
                /\ chan[c][i] = ServerMessage_JoinLobby(l)
                /\ chan[c][j].type = "CannotJoinLobby"
                /\ chan[c][j].reason = "NoSuchLobby"

\* the lobbies that hold a player in their players list
LobbiesOf(st, id) == {l \in DOMAIN st.lobbies : id \in Members(st.lobbies[l].players)}

\* C34: when a client that is in a lobby disconnects, the server removes the
\* player, removes that lobby, sends EndGame{OpponentDisconnect} to the
\* lobby's players, and afterwards no entry of player_2_lobby refers to the
\* removed lobby or to the disconnected player; when the client is in no
\* lobby, only the player is removed and no lobby is touched.
C34_DisconnectEndsLobby ==
    [][(handled' = handled + 1 /\ last'.op = "ClientDisconnected")
          => LET id == last'.client_id
             IN  /\ server'.players = remove(server.players, id)
                 /\ \A l \in LobbiesOf(server, id) :
                       /\ l \notin DOMAIN server'.lobbies
                       /\ chan' = send_to_each(chan, server.lobbies[l].players,
                                               ServerMessage_EndGame("OpponentDisconnect"))
                       /\ \A p \in DOMAIN server'.player_2_lobby :
                             p # id /\ server'.player_2_lobby[p] # l
                 /\ LobbiesOf(server, id) = {}
                       => /\ server'.lobbies = server.lobbies
                          /\ chan' = chan]_vars

\* C35: remove_lobby(l) removes the lobby and every reference to it. In
\* every reachable server state, after remove_lobby(l) lobbies has no entry
\* l and no player in player_2_lobby maps to l; when l does not exist,
\* nothing changes.
C35_RemoveLobbyCleans ==
    \A l \in LobbyIds :
        LET after == remove_lobby(server, l)
        IN  IF l \in DOMAIN server.lobbies
            THEN /\ l \notin DOMAIN after.lobbies
                 /\ \A p \in DOMAIN after.player_2_lobby : after.player_2_lobby[p] # l
            ELSE after = server

\* C36: get_card_from_tier(t) returns a card id that is a member of
\* tiers[t], for every non-empty tier (a tier with a single card included),
\* and every card of the tier is a possible result.
C36_CardFromTier ==
    (/\ drawn.op = "get_card_from_tier"
     /\ drawn.tier < Len(card_set.tiers)
     /\ card_set.tiers[drawn.tier + 1] # <<>>)
        => /\ ~drawn.panic
           /\ drawn.ret \in Members(card_set.tiers[drawn.tier + 1])
           /\ get_card_from_tier(card_set, drawn.tier)
                  = {CardReturned(id) : id \in Members(card_set.tiers[drawn.tier + 1])}

====
